---- MODULE Spec2Model ----
(***************************************************************************)
(* Verification model of the Subresource Integrity (SRI) core of the site  *)
(* generator: build/sriHashGenerator.js (src/unnamed/part_005).            *)
(*                                                                         *)
(* Text is modelled at lexeme granularity: an HTML document, a URL and a   *)
(* regular expression are sequences of lexemes (strings such as "<script", *)
(* "src=", "http", "s", "://", ">").  The lexemes are chosen so that no     *)
(* literal of the source's regular expressions straddles a lexeme border,  *)
(* hence matching lexeme by lexeme is matching character by character on   *)
(* the documents built from them.                                          *)
(***************************************************************************)
EXTENDS Integers, Sequences, FiniteSets, TLC

\* ------------------------------------------------------------------------
\* Bounds of the model
\* ------------------------------------------------------------------------

\* Most script/link tags in one input document.
MaxTags == 2
\* Most entries of a hash map handed directly to the rewriter.
MaxEntries == 2
\* Most successive passes of the rewriter over its own output.
MaxPasses == 2
MaxDirEntries == 2

\* ------------------------------------------------------------------------
\* Text primitives
\* ------------------------------------------------------------------------

\* A hash is a sequence of lexemes.  null (a failed fetch, part_005:74) is
\* the empty sequence: `!hash` (part_005:129) holds of null and of ''.
Null == <<>>

\* Case folding of the lexemes that exist in both cases (the 'i' flag of
\* every regular expression of the module: part_005:93,104,134,150).
Fold(tok) ==
  CASE tok = "A" -> "a"
    [] tok = "HTTP" -> "http"
    [] OTHER -> tok

\* String.prototype.includes on lexeme sequences (case-sensitive).
Includes(s, tok) == \E k \in 1..Len(s) : s[k] = tok

\* Array.prototype.includes on a list of URLs (part_005:98,110).
ListIncludes(list, url) == \E k \in 1..Len(list) : list[k] = url

\* ------------------------------------------------------------------------
\* Regular expressions.  A pattern is a sequence of elements; an element
\* is a character class with a greedy quantifier:
\*   Lit(c)  one lexeme equal to c        Opt(C)   C?
\*   Plus(C) C+                           Star(C)  C*
\* ------------------------------------------------------------------------
Lit(c) == [cls |-> {c}, neg |-> FALSE, min |-> 1, many |-> FALSE]
Opt(C) == [cls |-> C, neg |-> FALSE, min |-> 0, many |-> FALSE]
PlusNot(C) == [cls |-> C, neg |-> TRUE, min |-> 1, many |-> TRUE]
StarNot(C) == [cls |-> C, neg |-> TRUE, min |-> 0, many |-> TRUE]

\* ["']
Quotes == {"\"", "'"}
\* [^>]
NotGT == {">"}
\* [^"'\s>]
UrlStop == {"\"", "'", " ", ">"}

\* One lexeme against one element, ignoring case.
ElemMatches(e, tok) == (Fold(tok) \in {Fold(c) : c \in e.cls}) # e.neg

\* Longest run of lexemes from position i that the element accepts.
RECURSIVE RunLen(_, _, _, _)
RunLen(e, s, i, k) ==
  IF i + k > Len(s) THEN k
  ELSE IF ~ElemMatches(e, s[i + k]) THEN k
  ELSE IF ~e.many /\ k >= 1 THEN k
  ELSE RunLen(e, s, i, k + 1)

\* Backtracking match of pat[p..] at position i of s.  The result is <<>>
\* when there is no match, and otherwise the start position of every
\* element p, p+1, ... followed by the position after the match.
RECURSIVE MatchAt(_, _, _, _), TryCount(_, _, _, _, _)
MatchAt(pat, s, p, i) ==
  IF p > Len(pat) THEN <<i>>
  ELSE LET e == pat[p]
           run == IF e.many THEN RunLen(e, s, i, 0)
                  ELSE IF i <= Len(s) /\ ElemMatches(e, s[i]) THEN 1 ELSE 0
       IN TryCount(pat, s, p, i, run)

\* Greedy: the longest repetition first, then one fewer, down to min.
TryCount(pat, s, p, i, k) ==
  IF k < pat[p].min THEN <<>>
  ELSE LET r == MatchAt(pat, s, p + 1, i + k)
       IN IF r # <<>> THEN <<i>> \o r ELSE TryCount(pat, s, p, i, k - 1)

\* RegExp.prototype.exec with the 'g' flag: the leftmost match starting at
\* or after lastIndex, as <<start>> \o boundaries, or <<>> for null.
RECURSIVE Exec(_, _, _)
Exec(pat, s, lastIndex) ==
  IF lastIndex > Len(s) THEN <<>>
  ELSE LET m == MatchAt(pat, s, 1, lastIndex)
       IN IF m # <<>> THEN m ELSE Exec(pat, s, lastIndex + 1)

\* The end (exclusive) of a match returned by Exec.
MatchEnd(m) == m[Len(m)]

Slice(s, from, to) == IF from > to THEN <<>> ELSE SubSeq(s, from, to)


\* ------------------------------------------------------------------------
\* Hash Generator (part_005:18-23)
\* ------------------------------------------------------------------------

\* crypto.createHash(algorithm) throws for any other name.
SupportedAlgorithms == {"sha256", "sha384", "sha512"}

\* Buffer.concat(chunks): the body bytes in arrival order (part_005:48).
RECURSIVE BufferConcat(_)
BufferConcat(chunks) ==
  IF chunks = <<>> THEN <<>> ELSE Head(chunks) \o BufferConcat(Tail(chunks))

\* hash.digest('base64'): a collision-free digest is modelled by the
\* injective byte-wise encoding "x" -> "dx", "y" -> "dy", closed by "=".
DigestByte(b) == IF b = "x" THEN "dx" ELSE "dy"
Base64Digest(content) ==
  [k \in 1..Len(content) |-> DigestByte(content[k])] \o <<"=">>

\* generateSRIHash: `${algorithm}-${base64Hash}`.
generateSRIHash(content, algorithm) ==
  <<algorithm, "-">> \o Base64Digest(content)

\* ------------------------------------------------------------------------
\* Resource Locator (part_005:86-116)
\* ------------------------------------------------------------------------

\* Mutant of ExtractScriptRegex: the scheme is not required, any src value
\* is captured.
ExtractScriptRegex_AnyUrl ==
  << Lit("<script"), PlusNot(NotGT), Lit("src="), Opt(Quotes),
     Opt({"http"}), Opt({"s"}), Opt({"://"}), PlusNot(UrlStop),
     Opt(Quotes), StarNot(NotGT), Lit(">") >>

\* /<script[^>]+src=["']?(https?:\/\/[^"'\s>]+)["']?[^>]*>/gi
\* Elements 5..8 are capture group 1.
ExtractScriptRegex ==
  << Lit("<script"), PlusNot(NotGT), Lit("src="), Opt(Quotes),
     Lit("http"), Opt({"s"}), Lit("://"), PlusNot(UrlStop),
     Opt(Quotes), StarNot(NotGT), Lit(">") >>

\* /<link[^>]+href=["']?(https?:\/\/[^"'\s>]+)["']?[^>]*>/gi
ExtractLinkRegex ==
  << Lit("<link"), PlusNot(NotGT), Lit("href="), Opt(Quotes),
     Lit("http"), Opt({"s"}), Lit("://"), PlusNot(UrlStop),
     Opt(Quotes), StarNot(NotGT), Lit(">") >>

\* match[1] and match[0] of a match of the two expressions above.
ExtractGroup1(s, m) == Slice(s, m[5], m[9] - 1)
FullMatch(s, m) == Slice(s, m[1], MatchEnd(m) - 1)

\* Mutant of ScanScripts: every match is pushed, listed or not.
RECURSIVE ScanScripts_NoDedup(_, _, _)
ScanScripts_NoDedup(html, lastIndex, scripts) ==
  LET m == Exec(ExtractScriptRegex, html, lastIndex)
  IN IF m = <<>> THEN scripts
     ELSE ScanScripts_NoDedup(html, MatchEnd(m),
                              Append(scripts, ExtractGroup1(html, m)))

\* The while loop of part_005:96-101.
RECURSIVE ScanScripts(_, _, _)
ScanScripts(html, lastIndex, scripts) ==
  LET m == Exec(ExtractScriptRegex, html, lastIndex)
  IN IF m = <<>> THEN scripts
     ELSE LET url == ExtractGroup1(html, m)
          IN ScanScripts(html, MatchEnd(m),
               IF ~ListIncludes(scripts, url)
               THEN Append(scripts, url) ELSE scripts)

\* part_005:110: fullTag.includes('stylesheet') && !stylesheets.includes(url)
IsStylesheetTag(fullTag) == Includes(fullTag, "stylesheet")

\* The while loop of part_005:106-113.
RECURSIVE ScanLinks(_, _, _)
ScanLinks(html, lastIndex, stylesheets) ==
  LET m == Exec(ExtractLinkRegex, html, lastIndex)
  IN IF m = <<>> THEN stylesheets
     ELSE LET url == ExtractGroup1(html, m)
              fullTag == FullMatch(html, m)
          IN ScanLinks(html, MatchEnd(m),
               IF IsStylesheetTag(fullTag) /\ ~ListIncludes(stylesheets, url)
               THEN Append(stylesheets, url) ELSE stylesheets)

extractExternalResources(html) ==
  [scripts |-> ScanScripts(html, 1, <<>>),
   stylesheets |-> ScanLinks(html, 1, <<>>)]

\* ------------------------------------------------------------------------
\* HTML Integrity Rewriter (part_005:124-174)
\* ------------------------------------------------------------------------

\* escapeRegex followed by the RegExp constructor: every lexeme of the URL,
\* regex metacharacters included, is matched literally.
escapeRegex(str) == [k \in 1..Len(str) |-> Lit(str[k])]

\* new RegExp(`(<script[^>]+src=["']?${escapeRegex(url)}["']?)([^>]*>)`, 'gi')
\* and the same with <link ... href=.  The last two elements are group 2.
RewriteRegex(open, attr, url) ==
  << Lit(open), PlusNot(NotGT), Lit(attr), Opt(Quotes) >>
    \o escapeRegex(url)
    \o << Opt(Quotes), StarNot(NotGT), Lit(">") >>

\* ` integrity="${hash}" crossorigin="anonymous"` (part_005:144,160)
SRIAttributes(hash) ==
  <<" ", "integrity=", "\"">> \o hash
    \o <<"\"", " ", "crossorigin=", "\"", "anonymous", "\"">>

\* The replace callback (part_005:137-145 and 153-161).
ReplaceCallback(match, opening, closing, hash) ==
  IF Includes(opening, "integrity=") THEN match
  ELSE opening \o SRIAttributes(hash) \o closing

\* String.prototype.replace with a global expression and a callback.
RECURSIVE ReplaceAll(_, _, _, _)
ReplaceAll(pat, s, from, hash) ==
  LET m == Exec(pat, s, from)
      n == Len(pat)
  IN IF m = <<>> THEN Slice(s, from, Len(s))
     ELSE Slice(s, from, m[1] - 1)
          \o ReplaceCallback(FullMatch(s, m),
                             Slice(s, m[1], m[n - 1] - 1),
                             Slice(s, m[n - 1], MatchEnd(m) - 1),
                             hash)
          \o ReplaceAll(pat, s, MatchEnd(m), hash)

\* One iteration of the for loop (part_005:128-162): the entry <<url, hash>>.
RewriteEntry(updatedHtml, url, hash) ==
  IF hash = Null THEN updatedHtml
  ELSE ReplaceAll(RewriteRegex("<link", "href=", url),
                  ReplaceAll(RewriteRegex("<script", "src=", url),
                             updatedHtml, 1, hash),
                  1, hash)

\* addSRIAttributesToHTML: sriHashes is the map as Object.entries lists it,
\* a sequence of <<url, hash>> in insertion order.
RECURSIVE RewriteFrom(_, _, _)
RewriteFrom(updatedHtml, sriHashes, k) ==
  IF k > Len(sriHashes) THEN updatedHtml
  ELSE RewriteFrom(RewriteEntry(updatedHtml, sriHashes[k][1], sriHashes[k][2]),
                   sriHashes, k + 1)

addSRIAttributesToHTML(html, sriHashes) == RewriteFrom(html, sriHashes, 1)


\* ------------------------------------------------------------------------
\* Inputs: documents, hash maps, options, network behaviour
\* ------------------------------------------------------------------------

UrlA == <<"http", "s", "://", "a">>
UrlASlash == <<"http", "s", "://", "a", "/">>
UrlUpperA == <<"http", "s", "://", "A">>
UrlB == <<"http", "s", "://", "b">>
UrlSheetPath == <<"http", "s", "://", "b", "/", "stylesheet">>
UrlUpperScheme == <<"HTTP", "://", "b">>
LocalJs == <<"js/local.js">>
LocalCss == <<"css/local.css">>

HashX == generateSRIHash(<<"x">>, "sha384")
HashY == generateSRIHash(<<"y">>, "sha384")

DQ == <<"\"">>
NoAttr == <<>>
RelStylesheet == <<"rel=", "\"", "stylesheet", "\"", " ">>
RelPreload == <<"rel=", "\"", "preload", "\"", " ">>
IntegrityBefore == <<"integrity=", "\"">> \o HashY \o <<"\"", " ">>
IntegrityAfter == <<" ", "integrity=", "\"">> \o HashY \o <<"\"">>

\* An opening tag: <open pre attr=q url q post>
Tag(open, pre, attr, q, url, post) ==
  [open |-> open, pre |-> pre, attr |-> attr, q |-> q, url |-> url, post |-> post]

TagText(t) ==
  <<t.open, " ">> \o t.pre \o <<t.attr>> \o t.q \o t.url \o t.q \o t.post \o <<">">>

ScriptTags ==
  { Tag("<script", NoAttr, "src=", DQ, UrlA, NoAttr),
    Tag("<script", NoAttr, "src=", DQ, UrlA, IntegrityAfter),
    Tag("<script", IntegrityBefore, "src=", DQ, UrlA, NoAttr),
    Tag("<script", NoAttr, "src=", DQ, UrlASlash, NoAttr),
    Tag("<script", NoAttr, "src=", DQ, UrlUpperA, NoAttr),
    Tag("<script", NoAttr, "src=", <<>>, UrlUpperScheme, NoAttr),
    Tag("<script", NoAttr, "src=", DQ, LocalJs, NoAttr) }

LinkTags ==
  { Tag("<link", RelStylesheet, "href=", DQ, UrlA, NoAttr),
    Tag("<link", RelStylesheet, "href=", DQ, UrlB, NoAttr),
    Tag("<link", RelPreload, "href=", DQ, UrlB, NoAttr),
    Tag("<link", RelPreload, "href=", DQ, UrlSheetPath, NoAttr),
    Tag("<link", RelStylesheet, "href=", DQ, LocalCss, NoAttr) }

TagSet == ScriptTags \cup LinkTags

\* Documents of at most MaxTags tags, as their lists of tags.
Docs == UNION { [1..n -> TagSet] : n \in 0..MaxTags }

\* The documents handed to processHTMLForSRI.
PipelineTags ==
  { Tag("<script", NoAttr, "src=", DQ, UrlA, NoAttr),
    Tag("<script", NoAttr, "src=", DQ, UrlASlash, NoAttr),
    Tag("<script", NoAttr, "src=", <<>>, UrlUpperScheme, NoAttr),
    Tag("<script", NoAttr, "src=", DQ, LocalJs, NoAttr),
    Tag("<link", RelStylesheet, "href=", DQ, UrlA, NoAttr),
    Tag("<link", RelPreload, "href=", DQ, UrlB, NoAttr),
    Tag("<link", RelPreload, "href=", DQ, UrlSheetPath, NoAttr),
    Tag("<link", RelStylesheet, "href=", DQ, LocalCss, NoAttr) }

PipelineDocs == UNION { [1..n -> PipelineTags] : n \in 0..MaxTags }

RECURSIVE DocText(_)
DocText(ts) == IF ts = <<>> THEN <<>> ELSE TagText(Head(ts)) \o DocText(Tail(ts))

\* Hash maps for a direct call of the rewriter: at most MaxEntries entries
\* with distinct keys, each value a hash or null.
MapKeys == {UrlA, UrlASlash, UrlUpperA, UrlB}
MapValues == {Null, HashX}
HashMaps ==
  { m \in UNION { [1..n -> MapKeys \X MapValues] : n \in 0..MaxEntries } :
      \A j, k \in 1..Len(m) : j # k => m[j][1] # m[k][1] }

\* options.algorithm: a supported name or an unsupported one.
Algorithms == {"sha384", "sha1024"}

\* response.statusCode: success, another 2xx, a redirect (an error status
\* takes the path of the redirect).
StatusCodes == {200, 204, 301}
\* One 'data' event delivers one chunk; a body is the list of its chunks.
Chunks == {<<"x">>, <<"y">>}
Bodies == {<<>>, <<<<"x">>>>, <<<<"x">>, <<"y">>>>}

IsPrefix(s, t) == Len(s) <= Len(t) /\ SubSeq(t, 1, Len(s)) = s


\* ------------------------------------------------------------------------
\* State
\* ------------------------------------------------------------------------
VARIABLES
  tags,         \* the input document as its list of tags
  html,         \* the input document as text (the html argument)
  algorithm,    \* options.algorithm
  skipFetch,    \* options.skipFetch
  pc,           \* position of processHTMLForSRI
  resources,    \* const resources (part_005:186)
  allUrls,      \* const allUrls (part_005:187)
  results,      \* const results of generateSRIHashesForURLs, insertion order
  idx,          \* position of the for loop over urls (part_005:67)
  req,          \* the request in flight: "idle", "sent", "body", "hung"
  chunks,       \* const chunks (part_005:41)
  fetchLog,     \* every url handed to generateSRIHashFromURL, with its client
                \* and the status code of its response (0: none yet)
  settled,      \* how each of those promises settled: a hash, or Null (rejected)
  returned,     \* the value processHTMLForSRI resolved with
  sriHashes,    \* the map of a direct call of addSRIAttributesToHTML
  updatedHtml,  \* the result of the latest direct call
  prevHtml,     \* the argument of the latest direct call
  passes,       \* number of direct calls made
  args,         \* process.argv.slice(2) of the addSRIHashes CLI
  dryRun,       \* options.dryRun (part_003:83)
  filePaths,    \* the files main loops over (part_003:88-96, 115)
  fileIdx,      \* position of that loop
  allSuccess,   \* let allSuccess (part_003:103, 120)
  cliPc,        \* position of the CLI
  buildPc,      \* position of build() (part_006:496-657)
  steps,        \* the build steps begun so far, in order
  htmlContent,  \* let htmlContent of build (part_006:557)
  disk,         \* the files: their text, or Missing
  writes,       \* every completed fs.writeFileSync of an HTML file
  exitCode,     \* the code the process exited with, or Running
  sourceDir,    \* the image source directory: whether it exists, its entries
  imageFiles,   \* const imageFiles of processImages (part_006:216)
  imgIdx,       \* position of its for loop (part_006:219)
  imgPc,        \* position of processImages within the current image
  imageResult,  \* const result of processImages (part_006:194-198)
  targetFiles,  \* the files in the target directory
  navActive,    \* nav.classList contains 'active' (js/main.js:53)
  ariaExpanded, \* the aria-expanded attribute of the toggle button
  toggleActive, \* menuToggle.classList contains 'active'
  fields,       \* the contact form's fields
  submitButton, \* the submit button: disabled, textContent
  statusDiv,    \* the .form-status element: className, textContent
  runs,         \* the submit handler runs waiting at an await
  posts         \* every fetch(form.action, {method: 'POST'}) issued

vars == << tags, html, algorithm, skipFetch, pc, resources, allUrls, results,
           idx, req, chunks, fetchLog, settled, returned,
           sriHashes, updatedHtml, prevHtml, passes,
           args, dryRun, filePaths, fileIdx, allSuccess, cliPc,
           buildPc, steps, htmlContent, disk, writes, exitCode,
           sourceDir, imageFiles, imgIdx, imgPc, imageResult, targetFiles,
           navActive, ariaExpanded, toggleActive,
           fields, submitButton, statusDiv, runs, posts >>

pipelineVars == << algorithm, skipFetch, pc, resources, allUrls, results,
                   idx, req, chunks, fetchLog, settled, returned >>
rewriterVars == << sriHashes, updatedHtml, prevHtml, passes >>
cliVars == << args, dryRun, filePaths, fileIdx, allSuccess, cliPc >>
buildVars == << buildPc, steps, htmlContent >>
fsVars == << disk, writes, exitCode >>
callerVars == << cliVars, buildVars, fsVars >>
imageVars == << sourceDir, imageFiles, imgIdx, imgPc, imageResult, targetFiles >>
menuVars == << navActive, ariaExpanded, toggleActive >>
formVars == << fields, submitButton, statusDiv, runs, posts >>
siteVars == << imageVars, menuVars, formVars >>
otherVars == << rewriterVars, siteVars >>
outerVars == << otherVars, callerVars >>

Missing == <<"ENOENT">>
\* exitCode while the process has not exited: no code of process.exit.
Running == -1
FileNames == {"index.html", "404.html"}
DistIndex == "dist/index.html"
AllFiles == FileNames \cup {DistIndex}

\* processImages is not running.
NoImages ==
  /\ sourceDir = [exists |-> FALSE, entries |-> <<>>]
  /\ imageFiles = <<>> /\ imgIdx = 0 /\ imgPc = "NotRun"
  /\ imageResult = [processed |-> <<>>, failed |-> <<>>, warnings |-> <<>>]
  /\ targetFiles = {}

\* No page is loaded in a browser.
NoPage ==
  /\ navActive = FALSE /\ ariaExpanded = "false" /\ toggleActive = FALSE
  /\ fields = <<>> /\ submitButton = <<>>
  /\ statusDiv = [className |-> "form-status", textContent |-> ""]
  /\ runs = <<>> /\ posts = <<>>

\* No CLI and no build is running: the module is called directly.
NoCaller ==
  /\ args = <<>> /\ dryRun = FALSE /\ filePaths = <<>> /\ fileIdx = 0
  /\ allSuccess = TRUE /\ cliPc = "NotRun"
  /\ buildPc = "NotRun" /\ steps = <<>> /\ htmlContent = <<>>
  /\ disk = [f \in AllFiles |-> Missing] /\ writes = <<>>
  /\ exitCode = Running

NoResources == [scripts |-> <<>>, stylesheets |-> <<>>]
NoResult == [html |-> <<>>, resources |-> NoResources, hashes |-> <<>>,
             modified |-> FALSE]

\* ------------------------------------------------------------------------
\* The rewriter called directly (it is exported: part_005:230), once and
\* then again on its own output.
\* ------------------------------------------------------------------------
InitRewriter ==
  /\ tags \in Docs
  /\ html = DocText(tags)
  /\ sriHashes \in HashMaps
  /\ updatedHtml = html
  /\ prevHtml = html
  /\ passes = 0
  /\ algorithm = "sha384" /\ skipFetch = FALSE /\ pc = "NotCalled"
  /\ resources = NoResources /\ allUrls = <<>> /\ results = <<>>
  /\ idx = 0 /\ req = "idle" /\ chunks = <<>>
  /\ fetchLog = <<>> /\ settled = <<>> /\ returned = NoResult
  /\ NoCaller
  /\ NoImages /\ NoPage

CallRewriter ==
  /\ passes < MaxPasses
  /\ prevHtml' = updatedHtml
  /\ updatedHtml' = addSRIAttributesToHTML(updatedHtml, sriHashes)
  /\ passes' = passes + 1
  /\ UNCHANGED << tags, html, sriHashes >>
  /\ UNCHANGED << pipelineVars, callerVars, siteVars >>

NextRewriter == CallRewriter

SpecRewriter == InitRewriter /\ [][NextRewriter]_vars


\* ------------------------------------------------------------------------
\* Orchestrator and Resource Fetcher (part_005:31-79, 182-223)
\* ------------------------------------------------------------------------

\* results[url] = value on a JavaScript object: an existing key keeps its
\* place, a new key is added last.
Put(map, url, value) ==
  IF \E k \in 1..Len(map) : map[k][1] = url
  THEN [k \in 1..Len(map) |-> IF map[k][1] = url THEN <<url, value>> ELSE map[k]]
  ELSE Append(map, <<url, value>>)

HasKey(map, url) == \E k \in 1..Len(map) : map[k][1] = url
Lookup(map, url) == map[CHOOSE k \in 1..Len(map) : map[k][1] = url][2]

\* url.startsWith('https') ? https : http (part_005:33)
ClientFor(url) ==
  IF Len(url) >= 2 /\ url[1] = "http" /\ url[2] = "s" THEN "https" ELSE "http"

\* The await of part_005:69 resolved with hash: part_005:70.
ResolvedAwait(res, url, hash) ==
  [pc |-> "Fetching", results |-> Put(res, url, hash), step |-> 1]

\* Mutant of RejectedAwait: no catch block, the rejection leaves the loop
\* and rejects the batch.
RejectedAwait_NoCatch(res, url) ==
  [pc |-> "Rejected", results |-> res, step |-> 0]

\* The await of part_005:69 rejected: the catch block, part_005:72-75.
RejectedAwait(res, url) ==
  [pc |-> "Fetching", results |-> Put(res, url, Null), step |-> 1]

Init ==
  /\ tags \in PipelineDocs
  /\ html = DocText(tags)
  /\ algorithm \in Algorithms
  /\ skipFetch \in BOOLEAN
  /\ pc = "Scanning"
  /\ resources = NoResources /\ allUrls = <<>> /\ results = <<>>
  /\ idx = 0 /\ req = "idle" /\ chunks = <<>>
  /\ fetchLog = <<>> /\ settled = <<>> /\ returned = NoResult
  /\ sriHashes = <<>> /\ updatedHtml = <<>> /\ prevHtml = <<>> /\ passes = 0
  /\ NoCaller
  /\ NoImages /\ NoPage

\* Mutant of ShortCircuit: skipFetch is ignored.
ShortCircuit_IgnoreSkipFetch(urls, skip) == Len(urls) = 0

\* The two early returns (part_005:189 and 201).
ShortCircuit(urls, skip) == Len(urls) = 0 \/ skip

\* processHTMLForSRI up to its first await (part_005:182-212), or to its
\* return when there is nothing to fetch.
Scan ==
  /\ pc = "Scanning"
  /\ resources' = extractExternalResources(html)
  /\ allUrls' = resources'.scripts \o resources'.stylesheets
  /\ IF ShortCircuit(allUrls', skipFetch)
     THEN /\ returned' = [html |-> html, resources |-> resources',
                          hashes |-> <<>>, modified |-> FALSE]
          /\ pc' = "Done"
          /\ idx' = idx
     ELSE /\ returned' = returned
          /\ pc' = "Fetching"
          /\ idx' = 1
  /\ results' = <<>>
  /\ UNCHANGED << tags, html, algorithm, skipFetch, req, chunks, fetchLog, settled >>
  /\ UNCHANGED outerVars

\* Mutant of IssueRequest: the next request does not wait for the one
\* before it.
IssueRequest_NoWait ==
  /\ pc = "Fetching" /\ Len(fetchLog) < Len(allUrls)
  /\ fetchLog' = Append(fetchLog,
                        [url |-> allUrls[Len(fetchLog) + 1],
                         client |-> ClientFor(allUrls[Len(fetchLog) + 1]),
                         status |-> 0])
  /\ req' = "sent"
  /\ chunks' = <<>>
  /\ UNCHANGED << tags, html, algorithm, skipFetch, pc, resources, allUrls,
                  results, idx, settled, returned >>
  /\ UNCHANGED outerVars

\* The loop head of generateSRIHashesForURLs calls generateSRIHashFromURL,
\* which issues client.get (part_005:67-69, 32-35).
IssueRequest ==
  /\ pc = "Fetching" /\ req = "idle" /\ idx <= Len(allUrls)
  /\ fetchLog' = Append(fetchLog,
                        [url |-> allUrls[idx], client |-> ClientFor(allUrls[idx]),
                         status |-> 0])
  /\ req' = "sent"
  /\ chunks' = <<>>
  /\ UNCHANGED << tags, html, algorithm, skipFetch, pc, resources, allUrls,
                  results, idx, settled, returned >>
  /\ UNCHANGED outerVars

\* The promise of the current url rejects and the loop goes on.
Reject ==
  LET next == RejectedAwait(results, allUrls[idx])
  IN /\ pc' = next.pc
     /\ results' = next.results
     /\ idx' = idx + next.step
     /\ settled' = Append(settled, Null)
     /\ req' = "idle"

\* Mutant of StatusRejected: every 2xx status is taken as a success.
StatusRejected_Not2xx(status) == status < 200 \/ status >= 300

\* response.statusCode !== 200 (part_005:36).
StatusRejected(status) == status # 200

\* The response callback (part_005:35-51).
OnResponse(status) ==
  /\ pc = "Fetching" /\ req = "sent"
  /\ fetchLog' = [fetchLog EXCEPT ![Len(fetchLog)].status = status]
  /\ IF StatusRejected(status)
     THEN Reject /\ chunks' = chunks
     ELSE /\ req' = "body"
          /\ chunks' = <<>>
          /\ UNCHANGED << pc, results, idx, settled >>
  /\ UNCHANGED << tags, html, algorithm, skipFetch, resources, allUrls,
                  returned >>
  /\ UNCHANGED outerVars

\* response.on('data') (part_005:43-45).
OnData(chunk) ==
  /\ pc = "Fetching" /\ req = "body"
  /\ \E body \in Bodies : IsPrefix(Append(chunks, chunk), body)
  /\ chunks' = Append(chunks, chunk)
  /\ UNCHANGED << tags, html, algorithm, skipFetch, pc, resources, allUrls,
                  results, idx, req, fetchLog, settled, returned >>
  /\ UNCHANGED outerVars

\* response.on('end') (part_005:47-51).  generateSRIHash throws for an
\* unsupported algorithm; thrown from an event listener, the exception is
\* uncaught and the promise never settles.
OnEnd ==
  /\ pc = "Fetching" /\ req = "body"
  /\ chunks \in Bodies
  /\ IF algorithm \in SupportedAlgorithms
     THEN LET hash == generateSRIHash(BufferConcat(chunks), algorithm)
              next == ResolvedAwait(results, allUrls[idx], hash)
          IN /\ pc' = next.pc
             /\ results' = next.results
             /\ idx' = idx + next.step
             /\ settled' = Append(settled, hash)
             /\ req' = "idle"
     ELSE /\ pc' = "Crashed"
          /\ UNCHANGED << results, idx, settled, req >>
  /\ UNCHANGED << tags, html, algorithm, skipFetch, resources, allUrls,
                  chunks, fetchLog, returned >>
  /\ UNCHANGED outerVars

\* The request's 'error' event (part_005:52-54), before or during the body.
OnError ==
  /\ pc = "Fetching" /\ req \in {"sent", "body"}
  /\ Reject
  /\ UNCHANGED << tags, html, algorithm, skipFetch, resources, allUrls,
                  chunks, fetchLog, returned >>
  /\ UNCHANGED outerVars

\* The loop is over: return results (part_005:78), the await of
\* part_005:212 resumes.
BatchReturn ==
  /\ pc = "Fetching" /\ req = "idle" /\ idx > Len(allUrls)
  /\ pc' = "Rewriting"
  /\ UNCHANGED << tags, html, algorithm, skipFetch, resources, allUrls,
                  results, idx, req, chunks, fetchLog, settled, returned >>
  /\ UNCHANGED outerVars

\* Mutant of ModifiedFlag: a run that fetched always reports a change.
ModifiedFlag_Always(out, in) == TRUE

\* modified: updatedHtml !== html (part_005:221).
ModifiedFlag(out, in) == out # in

\* A request that never gets a response, or whose body never ends: no
\* event of it is delivered any more.  The module sets no timeout and has
\* no 'timeout' listener (part_005:31-56).
Hang ==
  /\ pc = "Fetching" /\ req \in {"sent", "body"}
  /\ req' = "hung"
  /\ UNCHANGED << tags, html, algorithm, skipFetch, pc, resources, allUrls,
                  results, idx, chunks, fetchLog, settled, returned >>
  /\ UNCHANGED outerVars

\* part_005:214-222.
Rewrite ==
  /\ pc = "Rewriting"
  /\ LET out == addSRIAttributesToHTML(html, results)
     IN returned' = [html |-> out, resources |-> resources,
                     hashes |-> results, modified |-> ModifiedFlag(out, html)]
  /\ pc' = "Done"
  /\ UNCHANGED << tags, html, algorithm, skipFetch, resources, allUrls,
                  results, idx, req, chunks, fetchLog, settled >>
  /\ UNCHANGED outerVars

Next ==
  \/ Scan
  \/ IssueRequest
  \/ \E status \in StatusCodes : OnResponse(status)
  \/ \E chunk \in Chunks : OnData(chunk)
  \/ OnEnd
  \/ OnError
  \/ Hang
  \/ BatchReturn
  \/ Rewrite

Spec == Init /\ [][Next]_vars

\* The steps of the batch: the loop head and the events of a request.
FetchEvents ==
  \/ IssueRequest
  \/ \E status \in StatusCodes : OnResponse(status)
  \/ \E chunk \in Chunks : OnData(chunk)
  \/ OnEnd
  \/ OnError
  \/ BatchReturn

\* The synchronous stretches of processHTMLForSRI (part_005:182-212 and
\* 214-222) run to their end: the call leaves Scanning and Rewriting.
SyncStep ==
  /\ pc \in {"Scanning", "Rewriting"}
  /\ pc' \in {"Fetching", "Done"}

\* The run loop delivers every event that is pending and runs synchronous
\* code to its end: a step that stays possible is eventually taken.  A
\* request may hang.
SpecFair ==
  Init /\ [][Next]_vars /\ WF_vars(FetchEvents) /\ WF_pc(SyncStep)

\* Every issued request ends with a response or reports an error: no
\* request hangs.
NextResponsive ==
  \/ Scan
  \/ IssueRequest
  \/ \E status \in StatusCodes : OnResponse(status)
  \/ \E chunk \in Chunks : OnData(chunk)
  \/ OnEnd
  \/ OnError
  \/ BatchReturn
  \/ Rewrite

SpecResponsive ==
  Init /\ [][NextResponsive]_vars /\ WF_vars(FetchEvents) /\ WF_pc(SyncStep)


\* ------------------------------------------------------------------------
\* The addSRIHashes CLI (part_003)
\* ------------------------------------------------------------------------

\* The command lines: the four of the usage text (part_003:146-149), both
\* spellings of each option, and two files in a row.
ArgLists ==
  { <<>>, <<"--dry-run">>, <<"-d">>, <<"404.html">>, <<"-d", "404.html">>,
    <<"404.html", "index.html">>, <<"--help">>, <<"-h">> }

\* arg.startsWith('-') on the arguments above.
StartsWithDash(arg) == arg \in {"--dry-run", "-d", "--help", "-h"}

\* path.join(__dirname, '../index.html'), '../404.html' (part_003:93-96)
DefaultFiles == <<"index.html", "404.html">>

\* What a file holds: a page with one external script, a page with a local
\* script only, a page with an external script and an external stylesheet.
FileDocs ==
  { << Tag("<script", NoAttr, "src=", DQ, UrlA, NoAttr) >>,
    << Tag("<script", NoAttr, "src=", DQ, LocalJs, NoAttr) >>,
    << Tag("<script", NoAttr, "src=", DQ, UrlA, NoAttr),
       Tag("<link", RelStylesheet, "href=", DQ, UrlB, NoAttr) >> }

FileTexts == {DocText(ts) : ts \in FileDocs}
DocOfText(text) == CHOOSE ts \in FileDocs : DocText(ts) = text

\* processHTMLForSRI has not been called.
IdlePipeline ==
  /\ tags = <<>> /\ html = <<>>
  /\ algorithm = "sha384" /\ skipFetch = FALSE /\ pc = "NotCalled"
  /\ resources = NoResources /\ allUrls = <<>> /\ results = <<>>
  /\ idx = 0 /\ req = "idle" /\ chunks = <<>>
  /\ fetchLog = <<>> /\ settled = <<>> /\ returned = NoResult
  /\ sriHashes = <<>> /\ updatedHtml = <<>> /\ prevHtml = <<>> /\ passes = 0

\* A caller calls processHTMLForSRI(text of ts, {algorithm: alg, skipFetch: skip}).
CallProcessHTMLForSRI(ts, alg, skip) ==
  /\ tags' = ts /\ html' = DocText(ts)
  /\ algorithm' = alg /\ skipFetch' = skip /\ pc' = "Scanning"
  /\ resources' = NoResources /\ allUrls' = <<>> /\ results' = <<>>
  /\ idx' = 0 /\ req' = "idle" /\ chunks' = <<>>
  /\ fetchLog' = <<>> /\ settled' = <<>> /\ returned' = NoResult

InitCli ==
  /\ args \in ArgLists
  /\ dryRun = FALSE /\ filePaths = <<>> /\ fileIdx = 0
  /\ allSuccess = TRUE /\ cliPc = "Load"
  /\ buildPc = "NotRun" /\ steps = <<>> /\ htmlContent = <<>>
  /\ disk \in { d \in [AllFiles -> FileTexts \cup {Missing}] : d[DistIndex] = Missing }
  /\ writes = <<>>
  /\ exitCode = Running
  /\ IdlePipeline
  /\ NoImages /\ NoPage

\* The script is loaded: the usage branch (part_003:135-152), else main up
\* to its loop (part_003:78-103, 115-120).
MainStart ==
  /\ cliPc = "Load"
  /\ IF ListIncludes(args, "--help") \/ ListIncludes(args, "-h")
     THEN /\ exitCode' = 0
          /\ cliPc' = "Exited"
          /\ UNCHANGED << dryRun, filePaths, fileIdx, allSuccess >>
     ELSE /\ dryRun' = (ListIncludes(args, "--dry-run") \/ ListIncludes(args, "-d"))
          /\ LET named == SelectSeq(args, LAMBDA arg : ~StartsWithDash(arg))
             IN filePaths' = IF Len(named) = 0 THEN DefaultFiles ELSE named
          /\ fileIdx' = 1
          /\ allSuccess' = TRUE
          /\ cliPc' = "Loop"
          /\ exitCode' = exitCode
  /\ UNCHANGED << tags, html, pipelineVars, otherVars, buildVars, args,
                  disk, writes >>

\* main calls processFile for the next file (part_003:104, 121); processFile
\* runs to its await (part_003:19-38), or returns false for a missing file
\* (part_003:25-28) and main records it (part_003:105, 122).  The path
\* exists and fs.readFileSync, outside the try block, may still throw (a
\* directory, no permission): processFile rejects, main rejects at its
\* await and the catch of part_003:156-159 exits with code 1.
ProcessFileStart ==
  /\ cliPc = "Loop" /\ fileIdx <= Len(filePaths)
  /\ LET filePath == filePaths[fileIdx]
     IN IF disk[filePath] = Missing
        THEN /\ allSuccess' = FALSE
             /\ fileIdx' = fileIdx + 1
             /\ cliPc' = cliPc
             /\ exitCode' = exitCode
             /\ UNCHANGED << tags, html, pipelineVars >>
        ELSE \E readOk \in BOOLEAN :
               IF readOk
               THEN /\ CallProcessHTMLForSRI(DocOfText(disk[filePath]),
                                             "sha384", FALSE)
                    /\ cliPc' = "InFile"
                    /\ exitCode' = exitCode
                    /\ UNCHANGED << fileIdx, allSuccess >>
               ELSE /\ exitCode' = 1
                    /\ cliPc' = "Exited"
                    /\ UNCHANGED << tags, html, pipelineVars, fileIdx, allSuccess >>
  /\ UNCHANGED << args, dryRun, filePaths, otherVars, buildVars, disk, writes >>

\* Mutant of WritesFile: the dry-run option is ignored.
WritesFile_IgnoreDryRun(result, dry) == result.modified

\* processFile reaches fs.writeFileSync (part_003:65): the result is
\* modified (part_003:41-44) and this is no dry run (part_003:52-62).
WritesFile(result, dry) == result.modified /\ ~dry

\* processFile resumes after its await (part_003:41-72) and main records
\* what it returned (part_003:105, 122).  fs.writeFileSync may throw; a
\* rejection and a throw are caught (part_003:69-72).
ProcessFileEnd ==
  /\ cliPc = "InFile" /\ pc \in {"Done", "Rejected"}
  /\ LET filePath == filePaths[fileIdx]
     IN \E writeOk \in BOOLEAN :
          /\ IF pc = "Done" /\ WritesFile(returned, dryRun) /\ writeOk
             THEN /\ disk' = [disk EXCEPT ![filePath] = returned.html]
                  /\ writes' = Append(writes, [file |-> filePath,
                                               content |-> returned.html])
             ELSE UNCHANGED << disk, writes >>
          /\ LET success ==
                   /\ pc = "Done"
                   /\ WritesFile(returned, dryRun) => writeOk
             IN allSuccess' = (allSuccess /\ success)
  /\ fileIdx' = fileIdx + 1
  /\ cliPc' = "Loop"
  /\ UNCHANGED << tags, html, pipelineVars, otherVars, buildVars,
                  args, dryRun, filePaths, exitCode >>

\* The loop is over (part_003:108-113, 125-130).
MainExit ==
  /\ cliPc = "Loop" /\ fileIdx > Len(filePaths)
  /\ exitCode' = IF allSuccess THEN 0 ELSE 1
  /\ cliPc' = "Exited"
  /\ UNCHANGED << tags, html, pipelineVars, otherVars, buildVars,
                  args, dryRun, filePaths, fileIdx, allSuccess, disk, writes >>

NextCli ==
  \/ MainStart
  \/ ProcessFileStart
  \/ Scan
  \/ IssueRequest
  \/ \E status \in StatusCodes : OnResponse(status)
  \/ \E chunk \in Chunks : OnData(chunk)
  \/ OnEnd
  \/ OnError
  \/ Hang
  \/ BatchReturn
  \/ Rewrite
  \/ ProcessFileEnd
  \/ MainExit

SpecCli == InitCli /\ [][NextCli]_vars


\* ------------------------------------------------------------------------
\* build() (part_006:496-657)
\* ------------------------------------------------------------------------

\* The steps of build() in the order of its code.
BuildSteps ==
  << "validate", "extract", "images", "generate", "sri", "write",
     "css", "js", "copy", "naming" >>

InitBuild ==
  /\ buildPc = "validate" /\ steps = <<>> /\ htmlContent = <<>>
  /\ disk = [f \in AllFiles |-> Missing] /\ writes = <<>>
  /\ exitCode = Running
  /\ args = <<>> /\ dryRun = FALSE /\ filePaths = <<>> /\ fileIdx = 0
  /\ allSuccess = TRUE /\ cliPc = "NotRun"
  /\ IdlePipeline
  /\ NoImages /\ NoPage

\* A step of build() outside the SRI step begins; it goes on to the step
\* next, or throws to the catch of part_006:653-656: process.exit(1).
BuildStep(step, next, threw) ==
  /\ buildPc = step
  /\ steps' = Append(steps, step)
  /\ IF threw
     THEN buildPc' = "failed" /\ exitCode' = 1
     ELSE buildPc' = next /\ exitCode' = exitCode

\* validateDirectories and the dist directory (part_006:499-516, 830-844):
\* a required directory may be missing.
ValidateDirectories ==
  /\ \E threw \in BOOLEAN : BuildStep("validate", "extract", threw)
  /\ UNCHANGED << tags, html, pipelineVars, otherVars, cliVars,
                  htmlContent, disk, writes >>

\* Step 1 (part_006:518-534): an error of the extraction is caught.
ExtractContent ==
  /\ BuildStep("extract", "images", FALSE)
  /\ UNCHANGED << tags, html, pipelineVars, otherVars, cliVars,
                  htmlContent, disk, writes >>

\* Step 2 (part_006:536-553): an error of processImages is caught.
ProcessImages ==
  /\ BuildStep("images", "generate", FALSE)
  /\ UNCHANGED << tags, html, pipelineVars, otherVars, cliVars,
                  htmlContent, disk, writes >>

\* Step 3 (part_006:555-591): generateHTML returns a page, or throws and
\* the error is thrown again.
GenerateHTML ==
  /\ \E threw \in BOOLEAN, page \in FileTexts :
       /\ BuildStep("generate", "sri", threw)
       /\ htmlContent' = IF threw THEN htmlContent ELSE page
  /\ UNCHANGED << tags, html, pipelineVars, otherVars, cliVars, disk, writes >>

\* Step 3.5 to its await (part_006:593-599).
StartSRI ==
  /\ buildPc = "sri"
  /\ steps' = Append(steps, "sri")
  /\ CallProcessHTMLForSRI(DocOfText(htmlContent), "sha384", FALSE)
  /\ buildPc' = "awaitSRI"
  /\ UNCHANGED << otherVars, cliVars, htmlContent, fsVars >>

\* Mutant of HtmlAfterSRI: the result of the SRI step is dropped.
HtmlAfterSRI_KeepsGenerated(generated, result) == generated

\* if (sriResult.modified) htmlContent = sriResult.html (part_006:601-602)
HtmlAfterSRI(generated, result) ==
  IF result.modified THEN result.html ELSE generated

\* Step 3.5 after its await (part_006:601-617): the result is taken, a
\* rejection is caught and the build goes on with the generated page.
FinishSRI ==
  /\ buildPc = "awaitSRI" /\ pc \in {"Done", "Rejected"}
  /\ htmlContent' = IF pc = "Done" THEN HtmlAfterSRI(htmlContent, returned)
                                   ELSE htmlContent
  /\ buildPc' = "write"
  /\ UNCHANGED << tags, html, pipelineVars, otherVars, cliVars, steps, fsVars >>

\* fs.writeFileSync(htmlOutputPath, htmlContent) (part_006:619-622).
WriteHTML ==
  /\ \E threw \in BOOLEAN :
       /\ BuildStep("write", "css", threw)
       /\ IF threw
          THEN UNCHANGED << disk, writes >>
          ELSE /\ disk' = [disk EXCEPT ![DistIndex] = htmlContent]
               /\ writes' = Append(writes, [file |-> DistIndex,
                                            content |-> htmlContent])
  /\ UNCHANGED << tags, html, pipelineVars, otherVars, cliVars, htmlContent >>

\* Step 4 (part_006:624-626, 662-710): every file has its own try/catch.
ProcessCSSFiles ==
  /\ BuildStep("css", "js", FALSE)
  /\ UNCHANGED << tags, html, pipelineVars, otherVars, cliVars,
                  htmlContent, disk, writes >>

\* Step 5 (part_006:628-630, 713-775): every file has its own try/catch.
ProcessJSFiles ==
  /\ BuildStep("js", "copy", FALSE)
  /\ UNCHANGED << tags, html, pipelineVars, otherVars, cliVars,
                  htmlContent, disk, writes >>

\* Step 6 (part_006:632-634, 776-826): the copies are not guarded.
CopyStaticAssets ==
  /\ \E threw \in BOOLEAN : BuildStep("copy", "naming", threw)
  /\ UNCHANGED << tags, html, pipelineVars, otherVars, cliVars,
                  htmlContent, disk, writes >>

\* Step 7 (part_006:636-650): an invalid name is a warning; build returns.
ValidateNaming ==
  /\ buildPc = "naming"
  /\ steps' = Append(steps, "naming")
  /\ buildPc' = "finished"
  /\ exitCode' = 0
  /\ UNCHANGED << tags, html, pipelineVars, otherVars, cliVars,
                  htmlContent, disk, writes >>

NextBuild ==
  \/ ValidateDirectories
  \/ ExtractContent
  \/ ProcessImages
  \/ GenerateHTML
  \/ StartSRI
  \/ Scan
  \/ IssueRequest
  \/ \E status \in StatusCodes : OnResponse(status)
  \/ \E chunk \in Chunks : OnData(chunk)
  \/ OnEnd
  \/ OnError
  \/ Hang
  \/ BatchReturn
  \/ Rewrite
  \/ FinishSRI
  \/ WriteHTML
  \/ ProcessCSSFiles
  \/ ProcessJSFiles
  \/ CopyStaticAssets
  \/ ValidateNaming

SpecBuild == InitBuild /\ [][NextBuild]_vars


\* ------------------------------------------------------------------------
\* The image processor (part_006:193-430)
\* ------------------------------------------------------------------------

\* toLowerCase on the lexemes of file names.
ToLowerCase(x) == IF x = ".JPEG" THEN ".jpeg" ELSE Fold(x)

\* A directory entry: the lexemes of its base name, its extension, and
\* whether it is a file.
Entry(base, ext, isFile) == [base |-> base, ext |-> ext, isFile |-> isFile]

DirEntries ==
  { Entry(<<"team", "-", "a">>, ".jpg", TRUE),
    Entry(<<"a">>, ".jpg", TRUE),
    Entry(<<"a">>, ".png", TRUE),
    Entry(<<"icon">>, ".JPEG", TRUE),
    Entry(<<"notes">>, ".txt", TRUE),
    Entry(<<"firmati">>, "", FALSE) }

\* What readdirSync may return: at most MaxDirEntries distinct entries.
DirListings ==
  { es \in UNION { [1..n -> DirEntries] : n \in 0..MaxDirEntries } :
      \A i, j \in 1..Len(es) : es[i] = es[j] => i = j }

\* findImageFiles (part_006:255-285): the files of the main directory with
\* an image extension, in directory order.
ImageExtensions == {".jpg", ".jpeg", ".png"}
IsImageFile(entry) == entry.isFile /\ ToLowerCase(entry.ext) \in ImageExtensions
findImageFiles(entries) == SelectSeq(entries, IsImageFile)

\* The subdirectory an image is filed under (part_006:307-315).
TargetSubdir(image) ==
  LET has(word) == \E k \in 1..Len(image.base) : ToLowerCase(image.base[k]) = word
  IN IF has("team") THEN "team"
     ELSE IF has("service") THEN "services"
     ELSE IF has("icon") THEN "icons"
     ELSE ""

\* targetFile and webpFile (part_006:317-319).
TargetFile(image) == << TargetSubdir(image), image.base, image.ext >>
WebpFile(image) == << TargetSubdir(image), image.base, ".webp" >>

\* The warning texts (part_006:202, 225, 235): a prefix and the path.
Warning(prefix, path) == << prefix, path >>

InitImages ==
  /\ sourceDir \in {[exists |-> TRUE, entries |-> es] : es \in DirListings}
                     \cup {[exists |-> FALSE, entries |-> <<>>]}
  /\ imageFiles = <<>> /\ imgIdx = 0 /\ imgPc = "start"
  /\ imageResult = [processed |-> <<>>, failed |-> <<>>, warnings |-> <<>>]
  /\ targetFiles = {}
  /\ IdlePipeline /\ NoCaller /\ NoPage

\* processImages up to its loop (part_006:193-216).
StartProcessImages ==
  /\ imgPc = "start"
  /\ IF ~sourceDir.exists
     THEN /\ imageResult' =
               [imageResult EXCEPT !.warnings =
                  Append(@, Warning("Source path does not exist: ", <<"sourcePath">>))]
          /\ imgPc' = "returned"
          /\ UNCHANGED << imageFiles, imgIdx >>
     ELSE /\ imageFiles' = findImageFiles(sourceDir.entries)
          /\ imgIdx' = 1
          /\ imgPc' = "validate"
          /\ imageResult' = imageResult
  /\ UNCHANGED << tags, html, pipelineVars, rewriterVars, callerVars,
                  sourceDir, targetFiles, menuVars, formVars >>

\* Mutant of RecordFailure: the image is listed as failed without a warning.
RecordFailure_NoWarning(res, image, prefix) ==
  [res EXCEPT !.failed = Append(@, image)]

\* result.failed.push(imageFile); result.warnings.push(...)
\* (part_006:224-225 and 234-235).
RecordFailure(res, image, prefix) ==
  [res EXCEPT !.failed = Append(@, image),
              !.warnings = Append(@, Warning(prefix, image))]

\* validateImageIntegrity (part_006:222-228, 430-437): an invalid image is
\* recorded as failed and the loop continues.
ValidateImage ==
  /\ imgPc = "validate" /\ imgIdx <= Len(imageFiles)
  /\ \E isValid \in BOOLEAN :
       IF isValid
       THEN /\ imgPc' = "optimize"
            /\ UNCHANGED << imageResult, imgIdx >>
       ELSE /\ imageResult' = RecordFailure(imageResult, imageFiles[imgIdx],
                                            "Image is corrupted or invalid: ")
            /\ imgIdx' = imgIdx + 1
            /\ imgPc' = imgPc
  /\ UNCHANGED << tags, html, pipelineVars, rewriterVars, callerVars,
                  sourceDir, imageFiles, targetFiles, menuVars, formVars >>

\* processImage to the end of the optimization (part_006:295-345): the
\* file may be gone, unreadable, or sharp may fail; processImage then
\* throws and the catch of part_006:233-238 records the image as failed.
OptimizeImage ==
  /\ imgPc = "optimize"
  /\ \E threw \in BOOLEAN :
       IF threw
       THEN /\ imageResult' = RecordFailure(imageResult, imageFiles[imgIdx],
                                            "Failed to process image ")
            /\ imgIdx' = imgIdx + 1
            /\ imgPc' = "validate"
            /\ targetFiles' = targetFiles
       ELSE /\ targetFiles' = targetFiles \cup {TargetFile(imageFiles[imgIdx])}
            /\ imgPc' = "webp"
            /\ UNCHANGED << imageResult, imgIdx >>
  /\ UNCHANGED << tags, html, pipelineVars, rewriterVars, callerVars,
                  sourceDir, imageFiles, menuVars, formVars >>

\* generateWebP (part_006:347-355, 412-423): the file is written, or sharp
\* fails, the error is caught with a console warning and nothing is written.
WebPOutcome(files, image, threw) ==
  IF threw THEN files ELSE files \cup {WebpFile(image)}

\* The WebP step of processImage and its return (part_006:347-364); the
\* loop records the image as processed (part_006:230-232).
GenerateWebP ==
  /\ imgPc = "webp"
  /\ \E threw \in BOOLEAN :
       targetFiles' = WebPOutcome(targetFiles, imageFiles[imgIdx], threw)
  /\ imageResult' = [imageResult EXCEPT !.processed = Append(@, imageFiles[imgIdx])]
  /\ imgIdx' = imgIdx + 1
  /\ imgPc' = "validate"
  /\ UNCHANGED << tags, html, pipelineVars, rewriterVars, callerVars,
                  sourceDir, imageFiles, menuVars, formVars >>

\* The loop is over: the summary is logged and result returned
\* (part_006:241-247).
ReturnImages ==
  /\ imgPc = "validate" /\ imgIdx > Len(imageFiles)
  /\ imgPc' = "returned"
  /\ UNCHANGED << tags, html, pipelineVars, rewriterVars, callerVars,
                  sourceDir, imageFiles, imgIdx, imageResult, targetFiles,
                  menuVars, formVars >>

NextImages ==
  \/ StartProcessImages
  \/ ValidateImage
  \/ OptimizeImage
  \/ GenerateWebP
  \/ ReturnImages

SpecImages == InitImages /\ [][NextImages]_vars


\* ------------------------------------------------------------------------
\* Page script (src/js/main.js): mobile menu and contact form
\* ------------------------------------------------------------------------

\* Every variable the page script leaves alone.
nonPageVars == << tags, html, pipelineVars, rewriterVars, callerVars, imageVars >>

\* Submit events handled in one run of the page.
MaxSubmits == 2

\* The label of the submit button in the page's markup.
OriginalLabel == "Invia"
SendingLabel == "Invio in corso..."

\* The fields of the contact form (CONTACT_FORM_SETUP.md:74-85): Subject and
\* Message are required text fields like Name and are represented by it.
FormFields ==
  << [name |-> "name", type |-> "text", required |-> TRUE],
     [name |-> "email", type |-> "email", required |-> TRUE],
     [name |-> "phone", type |-> "tel", required |-> FALSE],
     [name |-> "privacy", type |-> "checkbox", required |-> TRUE] >>
FieldNames == {FormFields[k].name : k \in 1..Len(FormFields)}

\* What the user can put into a field: text is a sequence of characters.
FieldValues(name) ==
  CASE name = "name" -> {<<>>, <<" ">>, <<"x">>}
    [] name = "email" -> {<<>>, <<"a", "@", "b">>, <<"a", "@", "b", ".", "c">>}
    [] name = "phone" -> {<<>>, <<"1">>}
    [] name = "privacy" -> BOOLEAN

\* The form as the markup delivers it, and after form.reset().
InitialFields ==
  [n \in FieldNames |-> IF n = "privacy" THEN FALSE ELSE <<>>]

\* String.prototype.trim.
RECURSIVE TrimStart(_)
TrimStart(s) ==
  IF s # <<>> /\ Head(s) = " " THEN TrimStart(Tail(s)) ELSE s
RECURSIVE TrimEnd(_)
TrimEnd(s) ==
  IF s # <<>> /\ s[Len(s)] = " " THEN TrimEnd(SubSeq(s, 1, Len(s) - 1)) ELSE s
Trim(s) == TrimEnd(TrimStart(s))

\* /^[^\s@]+@[^\s@]+\.[^\s@]+$/.test(value) (main.js:241-242): the whole
\* value splits as local part, '@', domain, '.', suffix, none of them empty
\* and none holding white space or '@'.
EmailPart(s, from, to) ==
  /\ from <= to
  /\ \A k \in from..to : s[k] \notin {" ", "@"}
EmailRegexTest(s) ==
  \E at \in 1..Len(s) : \E dot \in 1..Len(s) :
    /\ s[at] = "@" /\ s[dot] = "."
    /\ EmailPart(s, 1, at - 1)
    /\ EmailPart(s, at + 1, dot - 1)
    /\ EmailPart(s, dot + 1, Len(s))

\* form.querySelector('input[type="email"]'): the position of the first
\* email input, 0 when there is none (main.js:239).
EmailField ==
  IF \E k \in 1..Len(FormFields) : FormFields[k].type = "email"
  THEN CHOOSE k \in 1..Len(FormFields) :
         /\ FormFields[k].type = "email"
         /\ \A j \in 1..(k - 1) : FormFields[j].type # "email"
  ELSE 0

\* Mutant of validateForm: a required checkbox is never looked at.
validateForm_SkipsCheckbox(form) ==
  /\ \A k \in 1..Len(FormFields) :
       (FormFields[k].required /\ FormFields[k].type # "checkbox")
         => Trim(form[FormFields[k].name]) # <<>>
  /\ (EmailField # 0 /\ form[FormFields[EmailField].name] # <<>>)
       => EmailRegexTest(form[FormFields[EmailField].name])

\* validateForm (main.js:216-249): isValid stays true when no required
\* field fails its test and the email test does not fail.
validateForm(form) ==
  /\ \A k \in 1..Len(FormFields) :
       FormFields[k].required =>
         IF FormFields[k].type = "checkbox"
         THEN form[FormFields[k].name]
         ELSE Trim(form[FormFields[k].name]) # <<>>
  /\ (EmailField # 0 /\ form[FormFields[EmailField].name] # <<>>)
       => EmailRegexTest(form[FormFields[EmailField].name])

\* showStatus (main.js:251-257).
showStatus(type, message) ==
  [className |-> "form-status " \o type, textContent |-> message]

\* The state after init() (main.js:150-155): the toggle button is created
\* closed, the form is as delivered, no submit has been handled.
InitPage ==
  /\ IdlePipeline /\ NoCaller /\ NoImages
  /\ navActive = FALSE /\ ariaExpanded = "false" /\ toggleActive = FALSE
  /\ fields = InitialFields
  /\ submitButton = [disabled |-> FALSE, textContent |-> OriginalLabel]
  /\ statusDiv = [className |-> "form-status", textContent |-> ""]
  /\ runs = <<>> /\ posts = <<>>

\* String(!isExpanded) as setAttribute stores it (main.js:72).
BoolAttribute(b) == IF b THEN "true" ELSE "false"

\* Click on the toggle button (main.js:68-74); the document's click
\* handler ignores it, the target being the toggle (main.js:78).
ToggleClick ==
  /\ navActive' = ~navActive
  /\ ariaExpanded' = BoolAttribute(~(ariaExpanded = "true"))
  /\ toggleActive' = ~toggleActive
  /\ UNCHANGED << nonPageVars, formVars >>

\* The document's click handler for a target outside nav and toggle
\* (main.js:77-85), as a relation on the menu's flags.
CloseFromOutside(nav, aria, toggle) ==
  IF nav THEN << FALSE, "false", FALSE >> ELSE << nav, aria, toggle >>

\* Click somewhere outside the menu, not on a link.
OutsideClick ==
  /\ LET after == CloseFromOutside(navActive, ariaExpanded, toggleActive)
     IN navActive' = after[1] /\ ariaExpanded' = after[2] /\ toggleActive' = after[3]
  /\ UNCHANGED << nonPageVars, formVars >>

\* keydown of Escape (main.js:88-95).
EscapeKey ==
  /\ IF navActive
     THEN navActive' = FALSE /\ toggleActive' = FALSE /\ ariaExpanded' = "false"
     ELSE UNCHANGED menuVars
  /\ UNCHANGED << nonPageVars, formVars >>

\* The hrefs of the a[href^="#"] links and whether getElementById finds
\* the target (main.js:11,18-23).
Hrefs == {"#", "#servizi", "#missing"}
TargetExists(href) == href = "#servizi"

\* Click on an in-page link (main.js:14-46), inside the nav or elsewhere
\* on the page; the click then bubbles to the document's handler, which
\* acts when the link is outside the nav (main.js:77-85).
NavLinkClick(href, inNav) ==
  LET closes == href # "#" /\ TargetExists(href) /\ navActive
      nav1 == IF closes THEN FALSE ELSE navActive
      aria1 == IF closes THEN "false" ELSE ariaExpanded
      after == IF inNav THEN << nav1, aria1, toggleActive >>
               ELSE CloseFromOutside(nav1, aria1, toggleActive)
  IN /\ navActive' = after[1] /\ ariaExpanded' = after[2] /\ toggleActive' = after[3]
     /\ UNCHANGED << nonPageVars, formVars >>

\* The user changes one field.
EditField(name, value) ==
  /\ fields' = [fields EXCEPT ![name] = value]
  /\ UNCHANGED << nonPageVars, menuVars, submitButton, statusDiv, runs, posts >>

\* The finally block (main.js:210-213) of run r.
Finally(r) ==
  [disabled |-> FALSE, textContent |-> runs[r].originalButtonText]

\* A submit event (main.js:163-195): up to the return after a failed
\* validation, or to the await of fetch, whose POST carries the form data.
Submit ==
  /\ Len(runs) < MaxSubmits
  /\ LET originalButtonText == submitButton.textContent
     IN IF ~validateForm(fields)
        THEN /\ submitButton' = [disabled |-> FALSE,
                                 textContent |-> originalButtonText]
             /\ statusDiv' = showStatus("error", "required")
             /\ runs' = Append(runs, [originalButtonText |-> originalButtonText,
                                      stage |-> "done"])
             /\ posts' = posts
        ELSE /\ submitButton' = [disabled |-> TRUE, textContent |-> SendingLabel]
             /\ statusDiv' = [className |-> "form-status", textContent |-> ""]
             /\ runs' = Append(runs, [originalButtonText |-> originalButtonText,
                                      stage |-> "fetch"])
             /\ posts' = Append(posts, fields)
  /\ UNCHANGED << nonPageVars, menuVars, fields >>

\* fetch resolves with a response (main.js:197-207): ok shows the thanks
\* and resets the form, otherwise the handler awaits response.json().
FetchResolves(r, ok) ==
  /\ r \in 1..Len(runs) /\ runs[r].stage = "fetch"
  /\ IF ok
     THEN /\ statusDiv' = showStatus("success", "thanks")
          /\ fields' = InitialFields
          /\ submitButton' = Finally(r)
          /\ runs' = [runs EXCEPT ![r].stage = "done"]
     ELSE /\ runs' = [runs EXCEPT ![r].stage = "json"]
          /\ UNCHANGED << statusDiv, fields, submitButton >>
  /\ UNCHANGED << nonPageVars, menuVars, posts >>

\* response.json() settles (main.js:201-209): a parsed body shows the retry
\* message, an unparsable one throws into the catch block.
JsonSettles(r, parsed) ==
  /\ r \in 1..Len(runs) /\ runs[r].stage = "json"
  /\ statusDiv' = showStatus("error", IF parsed THEN "retry" ELSE "connection")
  /\ submitButton' = Finally(r)
  /\ runs' = [runs EXCEPT ![r].stage = "done"]
  /\ UNCHANGED << nonPageVars, menuVars, fields, posts >>

\* fetch rejects: the catch block (main.js:208-209).
FetchRejects(r) ==
  /\ r \in 1..Len(runs) /\ runs[r].stage = "fetch"
  /\ statusDiv' = showStatus("error", "connection")
  /\ submitButton' = Finally(r)
  /\ runs' = [runs EXCEPT ![r].stage = "done"]
  /\ UNCHANGED << nonPageVars, menuVars, fields, posts >>

\* A handler run is pending while it awaits fetch or response.json().
Pending(run) == run.stage \in {"fetch", "json"}

NextPage ==
  \/ ToggleClick
  \/ OutsideClick
  \/ EscapeKey
  \/ \E href \in Hrefs : \E inNav \in BOOLEAN : NavLinkClick(href, inNav)
  \/ \E name \in FieldNames : \E value \in FieldValues(name) :
       EditField(name, value)
  \/ Submit
  \/ \E r \in 1..MaxSubmits : \E ok \in BOOLEAN : FetchResolves(r, ok)
  \/ \E r \in 1..MaxSubmits : \E parsed \in BOOLEAN : JsonSettles(r, parsed)
  \/ \E r \in 1..MaxSubmits : FetchRejects(r)

SpecPage == InitPage /\ [][NextPage]_vars


\* ------------------------------------------------------------------------
\* Reference notions read off the document's tag list
\* ------------------------------------------------------------------------

\* The text cut after every ">": the tags of a document, also of a
\* rewritten one (the rewriter neither adds nor removes a ">").
RECURSIVE SplitTags(_, _, _)
SplitTags(s, k, cur) ==
  IF k > Len(s) THEN (IF cur = <<>> THEN <<>> ELSE <<cur>>)
  ELSE IF s[k] = ">" THEN <<Append(cur, ">")>> \o SplitTags(s, k + 1, <<>>)
  ELSE SplitTags(s, k + 1, Append(cur, s[k]))

TagsOfText(s) == SplitTags(s, 1, <<>>)

\* The k-th tag is in the text out exactly as it is in the input.
TagUntouched(out, k) ==
  /\ Len(TagsOfText(out)) = Len(tags)
  /\ TagsOfText(out)[k] = TagText(tags[k])

HasIntegrity(t) == Includes(TagText(t), "integrity=")

\* An absolute http(s) URL, the scheme in lower case.
IsAbsoluteUrl(url) ==
  /\ Len(url) >= 3
  /\ url[1] = "http"
  /\ url[2] = "://" \/ (url[2] = "s" /\ url[3] = "://")

\* The same, the scheme in either case.
IsAbsoluteUrlAnyCase(url) ==
  /\ Len(url) >= 3
  /\ Fold(url[1]) = "http"
  /\ url[2] = "://" \/ (url[2] = "s" /\ url[3] = "://")

\* The list without its repetitions, first occurrences kept in order.
RECURSIVE Dedup(_, _)
Dedup(list, seen) ==
  IF list = <<>> THEN seen
  ELSE Dedup(Tail(list),
             IF ListIncludes(seen, Head(list)) THEN seen
             ELSE Append(seen, Head(list)))

\* The absolute URLs of the tags of one kind, in document order.
RECURSIVE UrlsOfKind(_, _, _)
UrlsOfKind(ts, open, marker) ==
  IF ts = <<>> THEN <<>>
  ELSE LET t == Head(ts)
           counts == /\ t.open = open
                     /\ IsAbsoluteUrlAnyCase(t.url)
                     /\ marker = "" \/ Includes(TagText(t), marker)
       IN (IF counts THEN <<t.url>> ELSE <<>>) \o UrlsOfKind(Tail(ts), open, marker)

NoDuplicates(list) ==
  \A j, k \in 1..Len(list) : j # k => list[j] # list[k]

\* The rewriter has been called directly / the orchestrator has scanned.
RewrittenOnce == pc = "NotCalled" /\ passes = 1
Scanned == pc \in {"Fetching", "Rewriting", "Done", "Crashed", "Rejected"}
BatchOver == pc \in {"Rewriting", "Done"} /\ Len(fetchLog) > 0

\* ------------------------------------------------------------------------
\* Claims about the rewriter (SpecRewriter)
\* ------------------------------------------------------------------------

\* C1: a second pass of the rewriter, with the same map, over the output
\* of the first pass changes nothing.
C1_SecondPassIsNoOp ==
  (pc = "NotCalled" /\ passes = 2) => updatedHtml = prevHtml

\* C2: a tag that already has an integrity attribute anywhere in its
\* opening tag comes out of the rewriter unmodified.
C2_ExistingIntegrityUntouched ==
  RewrittenOnce =>
    \A k \in 1..Len(tags) : HasIntegrity(tags[k]) => TagUntouched(updatedHtml, k)

\* C3: the rewriter modifies a tag only if the tag's URL is exactly a key
\* of the hash map.
C3_OnlyExactUrlModified ==
  RewrittenOnce =>
    \A k \in 1..Len(tags) :
      ~TagUntouched(updatedHtml, k) => HasKey(sriHashes, tags[k].url)

\* C4: a tag whose URL has a null entry in the map comes out unchanged,
\* whatever the other entries of the map are.
C4_NullHashTagUntouched ==
  RewrittenOnce =>
    \A k \in 1..Len(tags) :
      (HasKey(sriHashes, tags[k].url) /\ Lookup(sriHashes, tags[k].url) = Null)
        => TagUntouched(updatedHtml, k)

\* The tag as C5 wants it: the two attributes added after the URL when the
\* URL has a hash and the tag no integrity attribute, nothing else changed.
FramedTag(t, map) ==
  IF HasKey(map, t.url) /\ Lookup(map, t.url) # Null /\ ~HasIntegrity(t)
  THEN <<t.open, " ">> \o t.pre \o <<t.attr>> \o t.q \o t.url \o t.q
         \o SRIAttributes(Lookup(map, t.url)) \o t.post \o <<">">>
  ELSE TagText(t)

RECURSIVE FramedDoc(_, _)
FramedDoc(ts, map) ==
  IF ts = <<>> THEN <<>> ELSE FramedTag(Head(ts), map) \o FramedDoc(Tail(ts), map)

\* C5: the output is the input with integrity="H" crossorigin="anonymous"
\* added to every tag whose URL has a hash H and which has no integrity
\* attribute, and with every other character unchanged.
C5_RewriteFrame ==
  RewrittenOnce => updatedHtml = FramedDoc(tags, sriHashes)


\* ------------------------------------------------------------------------
\* Claims about the locator and the fetcher (Spec)
\* ------------------------------------------------------------------------

AllLocated == resources.scripts \o resources.stylesheets

C7_ListsDedupedInFirstOccurrenceOrder ==
  Scanned =>
    /\ NoDuplicates(resources.scripts)
    /\ NoDuplicates(resources.stylesheets)
    /\ resources.scripts = Dedup(UrlsOfKind(tags, "<script", ""), <<>>)
    /\ resources.stylesheets = Dedup(UrlsOfKind(tags, "<link", "stylesheet"), <<>>)

\* Two script tags with the same absolute URL after another one: the scan
\* has met a repetition.
C7_Witness ==
  /\ Scanned
  /\ Len(tags) = 2
  /\ tags[1].open = "<script" /\ tags[2].open = "<script"
  /\ tags[1].url = tags[2].url
  /\ Len(resources.scripts) = 1

\* C8: a URL is listed as a stylesheet only if some link tag with
\* rel="stylesheet" refers to it; a rel="preload" link alone never puts
\* its href there.
C8_NonStylesheetLinkNeverListed ==
  Scanned =>
    \A k \in 1..Len(resources.stylesheets) :
      \E j \in 1..Len(tags) :
        /\ tags[j].open = "<link"
        /\ tags[j].pre = RelStylesheet
        /\ tags[j].url = resources.stylesheets[k]

\* The latest fetch of the url, among those settled so far.
LastFetchOf(url) ==
  CHOOSE k \in 1..Len(settled) :
    /\ fetchLog[k].url = url
    /\ \A j \in 1..Len(settled) : fetchLog[j].url = url => j <= k

\* C9: with a supported algorithm the batch never rejects or throws; when
\* it is over every URL of the list has been attempted, in list order, and
\* the map holds for every URL the outcome of its fetch: the hash of a
\* fetch that succeeded, null for one that failed.
C9_BatchIsolatesFailures ==
  /\ algorithm \in SupportedAlgorithms => pc \notin {"Rejected", "Crashed"}
  /\ BatchOver =>
       /\ Len(fetchLog) = Len(allUrls) /\ Len(settled) = Len(allUrls)
       /\ \A k \in 1..Len(allUrls) :
            /\ fetchLog[k].url = allUrls[k]
            /\ HasKey(results, allUrls[k])
            /\ Lookup(results, allUrls[k]) = settled[LastFetchOf(allUrls[k])]

\* A batch of two URLs is over, the first fetch failed, the second succeeded.
C9_Witness ==
  /\ BatchOver
  /\ Len(allUrls) = 2 /\ allUrls[1] # allUrls[2]
  /\ settled[1] = Null /\ settled[2] # Null
  /\ Lookup(results, allUrls[1]) = Null
  /\ Lookup(results, allUrls[2]) = settled[2]

\* C10: the map does not depend on the order of the fetches, and what is
\* recorded for a URL does not depend on any other fetch of the batch:
\* every fetch's own outcome is what the map holds for its URL.
C10_EveryFetchOutcomeRecorded ==
  BatchOver =>
    \A k \in 1..Len(settled) :
      Lookup(results, fetchLog[k].url) = settled[k]


\* ------------------------------------------------------------------------
\* Claims about the orchestrator (Spec)
\* ------------------------------------------------------------------------

\* No tag of the document has an absolute http(s) URL.
NoAbsoluteUrl == \A k \in 1..Len(tags) : ~IsAbsoluteUrlAnyCase(tags[k].url)

\* The result of the two early returns: the input, no hashes, not modified.
ReturnedUnmodified ==
  /\ returned.html = html
  /\ returned.hashes = <<>>
  /\ returned.modified = FALSE

\* C11: for a document without any absolute-URL script or link tag,
\* processHTMLForSRI issues no request and returns the input html, an
\* empty hash map and modified = false, whatever skipFetch is.
C11_NoExternalResourceNoFetch ==
  NoAbsoluteUrl =>
    /\ fetchLog = <<>>
    /\ pc \in {"Scanning", "Done"}
    /\ pc = "Done" => ReturnedUnmodified

\* A document of local tags only has been processed without skipFetch.
C11_Witness ==
  /\ pc = "Done" /\ NoAbsoluteUrl /\ Len(tags) > 0 /\ ~skipFetch

\* C12: with skipFetch = true no request is issued and the rewriting step
\* is never entered; the result holds the located lists, the input html,
\* an empty hash map and modified = false.
C12_SkipFetchReturnsInput ==
  skipFetch =>
    /\ fetchLog = <<>>
    /\ pc \in {"Scanning", "Done"}
    /\ pc = "Done" =>
         /\ ReturnedUnmodified
         /\ returned.resources.scripts = Dedup(UrlsOfKind(tags, "<script", ""), <<>>)
         /\ returned.resources.stylesheets =
              Dedup(UrlsOfKind(tags, "<link", "stylesheet"), <<>>)

\* skipFetch on a document with external resources.
C12_Witness ==
  /\ pc = "Done" /\ skipFetch /\ Len(allUrls) > 0
  /\ returned.resources.scripts # <<>>

\* C13: in every result, modified is true exactly when the returned html
\* differs from the input html.
C13_ModifiedIffHtmlDiffers ==
  pc = "Done" => (returned.modified <=> returned.html # html)

\* A run that fetched and whose every fetch failed returns unmodified.
C13_Witness ==
  /\ pc = "Done" /\ Len(fetchLog) > 0
  /\ ~returned.modified /\ returned.html = html


\* Every fetch of the run so far succeeded / failed.
AllFetchesSucceeded == \A k \in 1..Len(settled) : settled[k] # Null
AllFetchesFailed == \A k \in 1..Len(settled) : settled[k] = Null

\* C14: a run with failed fetches returns normally; the returned html has
\* the integrity attributes on exactly the tags of the URLs that were
\* hashed, the map holds null for every URL whose fetch failed, and when
\* every fetch failed the html is the input and modified is false.
C14_PartialHashingIsExact ==
  (pc = "Done" /\ Len(fetchLog) > 0) =>
    /\ returned.html = FramedDoc(tags, returned.hashes)
    /\ \A k \in 1..Len(settled) :
         settled[k] = Null => Lookup(returned.hashes, fetchLog[k].url) = Null
    /\ AllFetchesFailed => (returned.html = html /\ ~returned.modified)

\* C15: with an unsupported algorithm the call fails before any request is
\* issued: no request is ever logged and the call never returns a result.
C15_UnsupportedAlgorithmFailsBeforeIO ==
  algorithm \notin SupportedAlgorithms =>
    /\ fetchLog = <<>>
    /\ pc # "Done"

\* The tag text has an integrity attribute: the name stands outside every
\* quoted attribute value.
QuotesBefore(s, k) == Cardinality({j \in 1..(k - 1) : s[j] \in Quotes})
CarriesIntegrityAttribute(s) ==
  \E k \in 1..Len(s) : s[k] = "integrity=" /\ QuotesBefore(s, k) % 2 = 0

\* A script tag or a stylesheet link tag with an absolute URL.
IsExternalResourceTag(t) ==
  /\ IsAbsoluteUrl(t.url)
  /\ t.open = "<script" \/ (t.open = "<link" /\ t.pre = RelStylesheet)

\* C18: when every fetch succeeded, every script tag and every stylesheet
\* link tag with an absolute URL carries an integrity attribute in the
\* returned html.
C18_ExternalTagsCarryIntegrity ==
  (pc = "Done" /\ ~skipFetch /\ Len(fetchLog) > 0 /\ AllFetchesSucceeded) =>
    /\ Len(TagsOfText(returned.html)) = Len(tags)
    /\ \A k \in 1..Len(tags) :
         IsExternalResourceTag(tags[k]) =>
           CarriesIntegrityAttribute(TagsOfText(returned.html)[k])


\* C16: a request that hangs is eventually treated as a failure: the URL
\* of the n-th request, once hung, is eventually settled with a null hash
\* (and the loop goes on from there).
C16_HungRequestEventuallyFails ==
  \A n \in 1..MaxTags :
    (req = "hung" /\ Len(fetchLog) = n)
      ~> (Len(settled) >= n /\ settled[n] = Null /\ req # "hung")

\* A step of the orchestrator stays in its state or moves forward along
\* Scanning, Fetching, Rewriting, Done.
PcStepAllowed(p, q) ==
  \/ p = q
  \/ p = "Scanning" /\ q \in {"Done", "Fetching"}
  \/ p = "Fetching" /\ q = "Rewriting"
  \/ p = "Rewriting" /\ q = "Done"

PcStepInOrder ==
  algorithm \in SupportedAlgorithms =>
    PcStepAllowed(pc, pc')

\* C17: with a supported algorithm, when no request hangs, every call
\* eventually returns a result {html, resources, hashes, modified}; the
\* states follow Scanning, then Done or Fetching, Rewriting, Done, never
\* back to an earlier one, and no URL of the list is requested twice.
C17_OrchestratorTerminates ==
  /\ [](algorithm \in SupportedAlgorithms =>
          <>(pc = "Done"))
  /\ [](pc = "Done" =>
          /\ DOMAIN returned = {"html", "resources", "hashes", "modified"}
          /\ returned.resources = resources)
  /\ [](Len(fetchLog) <= Len(allUrls))
  /\ [][PcStepInOrder]_vars

C17_Witness ==
  /\ pc = "Done" /\ algorithm \in SupportedAlgorithms
  /\ Len(fetchLog) = 2
  /\ settled[1] = Null /\ settled[2] # Null


\* C19: in a dry run no HTML file is written, whatever the files and the
\* fetch outcomes; otherwise a step changes the files only by writing the
\* file being processed, only when the result is modified, and with
\* exactly result.html.
C19_WriteIsResultHtml ==
  /\ pc = "Done" /\ returned.modified /\ ~dryRun
  /\ cliPc = "InFile"
  /\ disk' = [disk EXCEPT ![filePaths[fileIdx]] = returned.html]

C19_DryRunNeverWrites ==
  /\ [](dryRun => writes = <<>>)
  /\ [][dryRun => disk' = disk]_vars
  /\ [][disk' # disk => C19_WriteIsResultHtml]_vars
  /\ [][writes' # writes => disk' # disk]_vars

\* A dry run whose result was modified has returned to main, and nothing
\* was written.
C19_Witness ==
  /\ dryRun /\ cliPc = "Loop" /\ fileIdx > 1
  /\ pc = "Done" /\ returned.modified
  /\ writes = <<>>


\* The page the SRI step hands on: the one it returned when modified, else
\* the generated one.
PageAfterSRI == IF returned.modified THEN returned.html ELSE html

\* C20: a failure in the SRI step never fails the build: the step never
\* leads to the exit with code 1; when it is over, whatever the fetches
\* did, the next step writes the generated page (bare, or partially or
\* fully hashed) to dist/index.html, and the build goes on with CSS, JS,
\* asset copy and naming validation.
C20_SRIStepNeverExits ==
  buildPc = "awaitSRI" => (buildPc' \in {"awaitSRI", "write"} /\ exitCode' = exitCode)

ReadmeOrder ==
  << "extract", "images", "generate", "sri", "minify", "naming", "copy" >>
ReadmeStep(step) == IF step \in {"css", "js"} THEN "minify" ELSE step
IsReadmeStep(step) ==
  \E k \in 1..Len(ReadmeOrder) : ReadmeOrder[k] = ReadmeStep(step)
ReadmePosition(step) ==
  CHOOSE k \in 1..Len(ReadmeOrder) : ReadmeOrder[k] = ReadmeStep(step)

\* C21: the steps of a build occur in the README's order: extraction,
\* images, HTML generation, SRI, minification, naming validation, and only
\* then the copy to dist; naming validation comes before the copy.
C21_StepsInReadmeOrder ==
  \A i, j \in 1..Len(steps) :
    (i < j /\ IsReadmeStep(steps[i]) /\ IsReadmeStep(steps[j]))
      => ReadmePosition(steps[i]) <= ReadmePosition(steps[j])


\* C22: when processImages returns, every image it lists as processed has
\* a WebP file of the same base name in the target directory.
C22_ProcessedImagesHaveWebP ==
  imgPc = "returned" =>
    \A k \in 1..Len(imageResult.processed) :
      WebpFile(imageResult.processed[k]) \in targetFiles

\* The members of a list, and how often x occurs in it.
Members(list) == {list[k] : k \in 1..Len(list)}
Occurrences(list, x) == Cardinality({k \in 1..Len(list) : list[k] = x})

\* The image files of the source directory, read off its entries.
ImagesOf(entries) ==
  {e \in Members(entries) :
     e.isFile /\ e.ext \in {".jpg", ".png", ".jpeg", ".JPEG"}}

\* C26: every image file of the source directory ends up in exactly one
\* of result.processed and result.failed, once; every failed image has a
\* warning that names it; an image that failed never stops the loop: the
\* images after it are settled too.
C26_ImagesPartitioned ==
  /\ imgPc = "returned" /\ sourceDir.exists =>
       /\ Members(imageResult.processed) \cup Members(imageResult.failed)
            = ImagesOf(sourceDir.entries)
       /\ \A image \in ImagesOf(sourceDir.entries) :
            Occurrences(imageResult.processed, image)
              + Occurrences(imageResult.failed, image) = 1
  /\ \A k \in 1..Len(imageResult.failed) :
       \E w \in 1..Len(imageResult.warnings) :
         imageResult.warnings[w][2] = imageResult.failed[k]
  /\ imgIdx > 0 =>
       Len(imageResult.processed) + Len(imageResult.failed) = imgIdx - 1

\* The first image failed and the second was processed all the same.
C26_Witness ==
  /\ imgPc = "returned"
  /\ Len(imageFiles) = 2
  /\ imageResult.failed = << imageFiles[1] >>
  /\ imageResult.processed = << imageFiles[2] >>

\* A value with a character that is not white space.
NonBlank(value) == \E k \in 1..Len(value) : value[k] # " "

\* The gate in the words of the form's documentation: Name and Email are
\* filled in, the privacy box is checked, and an email that is not empty
\* has the shape local@domain.suffix.
PassesGate(form) ==
  /\ NonBlank(form["name"]) /\ NonBlank(form["email"])
  /\ form["privacy"] = TRUE
  /\ form["email"] # <<>> => EmailRegexTest(form["email"])

\* One step of the page seen from the gate: a handled submit event sends
\* the form's data when the gate passes and otherwise sends nothing and
\* shows an error status; no other step sends anything.
GatedStep ==
  IF Len(runs') = Len(runs) + 1
  THEN IF PassesGate(fields)
       THEN posts' = Append(posts, fields)
       ELSE posts' = posts /\ statusDiv'.className = "form-status error"
  ELSE posts' = posts

\* C23: the submit handler issues the POST only if every required text
\* field is non-blank, the privacy checkbox is checked and a non-empty
\* email matches the email pattern; on a validation failure no request is
\* sent and an error status is shown.
C23_PostOnlyAfterValidation == [][GatedStep]_vars

\* One submit was refused, so that it sent nothing, and a later one was
\* sent with the privacy box checked.
C23_Witness ==
  /\ Len(posts) = 1 /\ Len(runs) = 2
  /\ runs[1].stage = "done" /\ runs[2].stage = "fetch"
  /\ statusDiv.className = "form-status"
  /\ posts[1]["privacy"] = TRUE

\* C29: in every state reachable by toggle clicks, outside clicks, Escape
\* presses and clicks on in-page links, nav has class 'active' iff the
\* toggle's aria-expanded is 'true' iff the toggle has class 'active'.
C29_MenuFlagsAgree ==
  /\ navActive <=> (ariaExpanded = "true")
  /\ navActive <=> toggleActive

\* C30: the submit button is disabled while a handler run is pending, and
\* once every run has completed it is enabled and shows its original label,
\* also when a submit event was handled while an earlier request was
\* pending.
C30_ButtonRecovers ==
  IF \E r \in 1..Len(runs) : Pending(runs[r])
  THEN submitButton.disabled
  ELSE submitButton = [disabled |-> FALSE, textContent |-> OriginalLabel]

\* C24: the list of URLs handed to generateSRIHashesForURLs has no
\* duplicates, and no URL is requested twice in one processHTMLForSRI call,
\* also when a script tag and a stylesheet link tag name the same URL.
C24_EachUrlFetchedOnce ==
  /\ NoDuplicates(allUrls)
  /\ NoDuplicates([k \in 1..Len(fetchLog) |-> fetchLog[k].url])

\* The bytes of the chunks 1..k in the order of their arrival.
RECURSIVE InArrivalOrder(_, _)
InArrivalOrder(cs, k) ==
  IF k = 0 THEN <<>> ELSE InArrivalOrder(cs, k - 1) \o cs[k]

\* The request issued last has been recorded.
LastRecorded == Len(fetchLog) > 0 /\ Len(settled) = Len(fetchLog)

\* C25: a response whose status code is not 200 (another 2xx or a 3xx
\* included) rejects without collecting or hashing any body bytes and its
\* URL is recorded as null; a hash is recorded only for a 200 response,
\* only after its body has ended and over all received chunks in their
\* arrival order.
C25_OnlyStatus200IsHashed ==
  /\ \A k \in 1..Len(settled) :
       /\ fetchLog[k].status \notin {0, 200} => settled[k] = Null
       /\ settled[k] # Null => fetchLog[k].status = 200
  /\ (Len(fetchLog) > 0 /\ fetchLog[Len(fetchLog)].status \notin {0, 200})
       => chunks = <<>> /\ LastRecorded
  /\ req = "body" => Len(settled) = Len(fetchLog) - 1
  /\ (LastRecorded /\ settled[Len(settled)] # Null) =>
       /\ chunks \in Bodies
       /\ settled[Len(settled)]
            = generateSRIHash(InArrivalOrder(chunks, Len(chunks)), algorithm)

\* The first URL was answered 204 and recorded as null, the second one
\* 200 with a body of two chunks, which was hashed.
C25_Witness ==
  /\ Len(settled) = 2 /\ Len(fetchLog) = 2
  /\ fetchLog[1].status = 204 /\ settled[1] = Null
  /\ fetchLog[2].status = 200 /\ settled[2] # Null
  /\ Len(chunks) = 2

\* A request is in flight: issued and not yet recorded.
InFlight == Len(fetchLog) - Len(settled)

\* C27: at most one request is in flight at any time; the requests are
\* issued in the order script URLs, then stylesheet URLs, each one only
\* after the entry of the one before it has been recorded; rewriting
\* starts only after the last URL is recorded.
C27_FetchesAreSequential ==
  /\ InFlight \in {0, 1}
  /\ InFlight = 1 <=> (pc = "Fetching" /\ req # "idle") \/ pc = "Crashed"
  /\ Len(fetchLog) > 0 => allUrls = resources.scripts \o resources.stylesheets
  /\ \A k \in 1..Len(fetchLog) :
       /\ k <= Len(allUrls) /\ fetchLog[k].url = allUrls[k]
       /\ k <= Len(settled) => HasKey(results, allUrls[k])
  /\ (pc \in {"Rewriting", "Done"} /\ ~skipFetch /\ allUrls # <<>>)
       => Len(settled) = Len(allUrls)

\* A script URL and then a stylesheet URL were requested, recorded, and
\* the document was rewritten.
C27_Witness ==
  /\ pc = "Done"
  /\ Len(resources.scripts) = 1 /\ Len(resources.stylesheets) = 1
  /\ Len(fetchLog) = 2 /\ Len(settled) = 2
  /\ fetchLog[1].url = resources.scripts[1]
  /\ fetchLog[2].url = resources.stylesheets[1]
  /\ fetchLog[1].url # fetchLog[2].url

\* The usage branch was taken (part_003:135-152).
HelpRequested == ListIncludes(args, "--help") \/ ListIncludes(args, "-h")

\* C28: the CLI processes every file of its list, also after a file
\* failed, and exits with code 1 if and only if a processFile call returned
\* false, which it does for a file that is not found; fetch failures alone
\* never fail a file: in a dry run over files that all exist no call
\* returns false.
C28_ExitCodeCountsFailedFiles ==
  (cliPc = "Exited" /\ ~HelpRequested) =>
    /\ fileIdx = Len(filePaths) + 1
    /\ exitCode = 1 <=> ~allSuccess
    /\ (\E k \in 1..Len(filePaths) : disk[filePaths[k]] = Missing) => ~allSuccess
    /\ (dryRun /\ \A k \in 1..Len(filePaths) : disk[filePaths[k]] # Missing)
         => allSuccess

====
